---------------------------- MODULE Spec2Model ----------------------------
(***************************************************************************)
(* torch::deploy (src/torch/csrc/deploy/deploy.cpp): the LoadBalancer, the *)
(* InterpreterManager with its pool of Interpreters, InterpreterSession    *)
(* and the ReplicatedObj protocol.                                         *)
(*                                                                         *)
(* Two specifications share one state:                                     *)
(*   SpecLB  threads run LoadBalancer::acquire one atomic operation at a   *)
(*           time (each compare-and-swap, the fetch-add) and free;         *)
(*   Spec    the manager's life: construction, sessions, movable objects,  *)
(*           module sources; here acquire runs as one step.                *)
(***************************************************************************)
EXTENDS Integers, Sequences, FiniteSets

\* ---- bounds of the model
MaxSlots == 3       \* largest LoadBalancer size in SpecLB
MaxHeld == 2        \* most unfreed acquisitions one thread keeps (SpecLB)
MaxPool == 2        \* largest pool size n_interp in Spec
MaxObjects == 2     \* most ReplicatedObjImpl ever created
MaxValue == 1       \* object values are 0 .. MaxValue
MaxAddr == 3        \* addresses are 0 .. MaxAddr, 0 is nullptr
OnePool == 1        \* largest pool size in SpecErr and SpecInterp
Threads == {1, 2}
Values == 0 .. MaxValue
Names == {"GetArgumentNamesModule", "mod"}
Texts == {"getArgumentNames_src", "text"}
Addrs == 0 .. MaxAddr

VARIABLES
  n_,              \* LoadBalancer::n_ = InterpreterManager's n_interp
  uses,            \* LoadBalancer::uses_, slot -> counter (uses_[8 * slot])
  last,            \* thread -> the thread_local `last` of acquire
  pc,              \* thread -> "idle" | "scan": position inside acquire
  loc,             \* thread -> acquire's locals i, minusers, min_idx
  held,            \* thread -> slot -> acquisitions returned and not yet freed
  scenario,        \* history: the run of acquires since the counters were all 0
  mgr_pc,          \* "ctor" | "ready" | "failed": the manager's constructor
  instances_,      \* InterpreterManager::instances_, slot k is instances_[k + 1]
  registered_module_sources_,  \* the map name -> source text
  registered_ever, \* history: name -> every text it was ever registered with
  next_object_id_, \* InterpreterManager::next_object_id_
  objs,            \* every ReplicatedObjImpl created, in creation order
  sess,            \* thread -> <<>> or <<the InterpreterSession it holds>>
  pend,            \* thread -> <<>> or <<the payload pickled by create_movable>>
  raised,          \* thread -> whether its last call ended in an exception
  err,             \* thread -> <<>> or <<the exception that left its last call>>
  mgr_err,         \* <<>> or <<the exception that left the manager's constructor>>
  fbcode,          \* whether the build defines FBCODE_CAFFE2
  embedded_interpreter_so_start,       \* the registered image, 0: nullptr
  embedded_interpreter_so_end,
  embedded_interpreter_cuda_so_start,  \* the registered cuda image
  embedded_interpreter_cuda_so_end,
  binary_so,       \* <<_binary_libtorch_deployinterpreter_so_start, _end>>
  ld_err,          \* <<>> or <<the exception that left the last loader call>>
  itp,             \* the Interpreter object: pc, handle_, pImpl_, dst, lib
  os,              \* the temporary file, the mapped module, its implementation
  steps            \* history: the steps the Interpreter's constructor and
                   \* destructor have completed, in order

lbvars == <<pc, loc, held, scenario>>
mgrvars == <<mgr_pc, instances_, registered_module_sources_,
             registered_ever, next_object_id_, objs, sess, pend, raised, err, mgr_err>>
ldvars == <<fbcode, embedded_interpreter_so_start, embedded_interpreter_so_end,
            embedded_interpreter_cuda_so_start,
            embedded_interpreter_cuda_so_end, binary_so, ld_err, itp, os,
            steps>>
vars == <<n_, uses, last, pc, loc, held, scenario, mgr_pc, instances_,
          registered_module_sources_, registered_ever, next_object_id_, objs,
          sess, pend, raised, err, mgr_err, fbcode, embedded_interpreter_so_start,
          embedded_interpreter_so_end, embedded_interpreter_cuda_so_start,
          embedded_interpreter_cuda_so_end, binary_so, ld_err, itp, os,
          steps>>

Slots == 0 .. (n_ - 1)

\* ---- uint64_t / size_t arithmetic ---------------------------------------
\* A 64-bit unsigned value is written by its representative nearest 0:
\* 0, 1, 2, ... stand for themselves and -1, -2, ... for 2^64-1, 2^64-2, ...
\* Addition and subtraction modulo 2^64 are then + and - on representatives
\* (the model stays far from 2^63); only the order has to be unsigned.
SIZE_MAX == -1

Lt64(a, b) == IF (a >= 0) = (b >= 0) THEN a < b ELSE a >= 0

Inc64(x) == x + 1

Dec64(x) == x - 1

\* ---- LoadBalancer::acquire ----------------------------------------------
\* `if (last >= n_) last = 0;`
WrapLast(l) == IF l >= n_ THEN 0 ELSE l

\* The locals at function entry: i = 0, minusers = SIZE_MAX, min_idx = 0.
EntryLocals == [i |-> 0, minusers |-> SIZE_MAX, min_idx |-> 0]

\* The scan remembers the first smallest counter it has seen.
SeenSmaller_OrEqual(prev, minusers) == ~Lt64(minusers, prev)

SeenSmaller(prev, minusers) == Lt64(prev, minusers)

\* The store of a successful compare-and-swap: the counter, found equal to
\* 0, becomes 1ULL.
CasStore_Lost(u, w) == u

CasStore(u, w) == [u EXCEPT ![w] = 1]

\* `acquired`: the compare-and-swap succeeds when it finds the counter equal
\* to the expected value, prev = 0.
Acquired_Le(prev) == prev <= 1

Acquired(prev) == prev = 0

\* The loop's `++i`.
NextI_Spin(i) == i

NextI(i) == i + 1

\* `return last;` leaves the loop without its ++last: the thread-local
\* offset stays at the slot that is returned.
LastOnReturn_Advance(w) == w + 1

LastOnReturn(w) == w

\* One iteration of the for loop (i < n_ holds): the wrap of `last`, the
\* compare-and-swap of uses_[8 * last] from 0 to 1 and, when it fails, the
\* update of the minimum and the loop's ++i, ++last.  ret is <<slot>> when
\* the iteration returns and <<>> when the loop goes on.
LoopIter(u, l, lc) ==
  LET w == WrapLast(l)
      prev == u[w]
  IN IF Acquired(prev)
       THEN [uses |-> CasStore(u, w), last |-> LastOnReturn(w), loc |-> lc,
             ret |-> <<w>>, fast |-> TRUE]
       ELSE [uses |-> u, last |-> w + 1,
             loc |-> [i |-> NextI(lc.i),
                      minusers |-> IF SeenSmaller(prev, lc.minusers)
                                     THEN prev ELSE lc.minusers,
                      min_idx |-> IF SeenSmaller(prev, lc.minusers)
                                    THEN w ELSE lc.min_idx],
             ret |-> <<>>, fast |-> FALSE]

\* After the loop: __atomic_fetch_add(&uses_[8 * min_idx], 1) and return.
SlowPath(u, l, lc) ==
  [uses |-> [u EXCEPT ![lc.min_idx] = Inc64(@)], last |-> l, loc |-> lc,
   ret |-> <<lc.min_idx>>, fast |-> FALSE]

\* The whole call, run without interruption from the state (u, l).
RECURSIVE AcquireRun(_, _, _)
AcquireRun(u, l, lc) ==
  IF lc.i < n_
    THEN LET r == LoopIter(u, l, lc)
         IN IF r.ret # <<>> THEN r ELSE AcquireRun(r.uses, r.last, r.loc)
    ELSE SlowPath(u, l, lc)

AcquireCall(u, l) == AcquireRun(u, l, EntryLocals)

\* ---- LoadBalancer::free -------------------------------------------------
FreeCounter_Twice(u, where) == [u EXCEPT ![where] = Dec64(Dec64(@))]

FreeCounter(u, where) == [u EXCEPT ![where] = Dec64(@)]

\* ---- history of the acquire scenario ------------------------------------
\* phase "fill":   the counters were all 0 and since then only acquires ran,
\*                 one at a time; slots lists what they returned;
\*       "drain":  a fill reached n_ acquires and since then only frees ran;
\*       "refill": the drain brought every counter back to 0 and since then
\*                 only acquires ran, one at a time;
\*       "off":    anything else.
AllZero(u) == \A s \in Slots : u[s] = 0

ScenarioStart == [phase |-> "fill", slots |-> <<>>]

ScenarioOff == [phase |-> "off", slots |-> <<>>]

AfterBegin(sc, racing) == IF racing THEN ScenarioOff ELSE sc

AfterReturn(sc, s, f) ==
  IF sc.phase \in {"fill", "refill"} /\ Len(sc.slots) < n_
    THEN [sc EXCEPT !.slots = Append(@, [slot |-> s, fast |-> f])]
    ELSE ScenarioOff

AfterFree(sc, u, quiet) ==
  CASE ~quiet -> ScenarioOff
    [] sc.phase = "fill" /\ Len(sc.slots) = n_ /\ ~AllZero(u) ->
         [sc EXCEPT !.phase = "drain"]
    [] sc.phase = "fill" /\ Len(sc.slots) = n_ /\ AllZero(u) ->
         [phase |-> "refill", slots |-> <<>>]
    [] sc.phase = "drain" /\ ~AllZero(u) -> sc
    [] sc.phase = "drain" /\ AllZero(u) -> [phase |-> "refill", slots |-> <<>>]
    [] OTHER -> IF AllZero(u) THEN ScenarioStart ELSE ScenarioOff

\* ---- the state after LoadBalancer's construction -------------------------
HeldNone == [s \in 0 .. (MaxSlots - 1) |-> 0]

ObjIds == 0 .. (MaxObjects - 1)

\* An Interpreter: the tag torch.version.interp (-1: not set), whether
\* set_find_module was called, and the implementation's table of
\* materialized objects, object id -> <<>> or <<value>>.
NewInterpreter ==
  [interp |-> -1, find_module |-> FALSE, objs |-> [id \in ObjIds |-> <<>>]]

\* InterpreterManager(n_interp) after its member initializers:
\* resources_(n_interp) with every counter 0, no instance yet.
InitCore(N) ==
  /\ n_ \in 1 .. N
  /\ uses = [s \in 0 .. (n_ - 1) |-> 0]
  /\ last = [t \in Threads |-> 0]
  /\ pc = [t \in Threads |-> "idle"]
  /\ loc = [t \in Threads |-> EntryLocals]
  /\ held = [t \in Threads |-> HeldNone]
  /\ scenario = ScenarioStart
  /\ mgr_pc = "ctor"
  /\ instances_ = <<>>
  /\ registered_module_sources_ = [nm \in {} |-> ""]
  /\ registered_ever = [nm \in Names |-> {}]
  /\ next_object_id_ = 0
  /\ objs = <<>>
  /\ sess = [t \in Threads |-> <<>>]
  /\ pend = [t \in Threads |-> <<>>]
  /\ raised = [t \in Threads |-> FALSE]
  /\ err = [t \in Threads |-> <<>>]
  /\ mgr_err = <<>>

\* The file-scope pointers start as nullptr (lines 9-12).  The image linked
\* into a build without FBCODE_CAFFE2 is the weak symbol pair
\* _binary_libtorch_deployinterpreter_so_start/_end: null when the image was
\* not linked in, absent from a build with FBCODE_CAFFE2.
NoImage == <<0, 0>>

\* No Interpreter object: pc is the constructor's or destructor's position,
\* handle_ the module handle (0: nullptr), pImpl_ whether the pointer is
\* set, dst the FILE* of the temporary file, lib the pair lib_start, lib_end.
NoInterpreter ==
  [pc |-> "none", handle_ |-> 0, pImpl_ |-> FALSE, dst |-> "none",
   lib |-> NoImage]

\* Outside the process: tmp is what the temporary file holds ("none": no
\* such file), mapped whether the module is loaded, impl whether the
\* implementation object exists, moved whether the handle was moved into
\* another Interpreter object.
CleanOs == [tmp |-> "none", mapped |-> FALSE, impl |-> FALSE, moved |-> FALSE]

LinkedImage == <<1, MaxAddr>>

InitLoader(builds, linked) ==
  /\ fbcode \in builds
  /\ embedded_interpreter_so_start = 0
  /\ embedded_interpreter_so_end = 0
  /\ embedded_interpreter_cuda_so_start = 0
  /\ embedded_interpreter_cuda_so_end = 0
  /\ binary_so \in (IF fbcode THEN {NoImage} ELSE linked)
  /\ ld_err = <<>>
  /\ itp = NoInterpreter
  /\ os = CleanOs
  /\ steps = <<>>

\* A manager in a build without FBCODE_CAFFE2 that has its image linked in.
InitWith(N) == InitCore(N) /\ InitLoader({FALSE}, {LinkedImage})

Init == InitWith(MaxPool)

InitLB == InitWith(MaxSlots)

HeldCount(t) ==
  LET RECURSIVE Sum(_)
      Sum(s) == IF s < 0 THEN 0 ELSE held[t][s] + Sum(s - 1)
  IN Sum(MaxSlots - 1)

\* A thread enters acquire.
AcquireBegin(t) ==
  /\ pc[t] = "idle"
  /\ HeldCount(t) < MaxHeld
  /\ pc' = [pc EXCEPT ![t] = "scan"]
  /\ loc' = [loc EXCEPT ![t] = EntryLocals]
  /\ scenario' = AfterBegin(scenario, \E o \in Threads \ {t} : pc[o] = "scan")
  /\ UNCHANGED <<n_, uses, last, held>>
  /\ UNCHANGED mgrvars
  /\ UNCHANGED ldvars

\* acquire's return: the thread owns one more acquisition of slot r.ret[1].
Returned(t, r) ==
  /\ pc' = [pc EXCEPT ![t] = "idle"]
  /\ loc' = [loc EXCEPT ![t] = EntryLocals]
  /\ held' = [held EXCEPT ![t][r.ret[1]] = @ + 1]
  /\ scenario' = AfterReturn(scenario, r.ret[1], r.fast)

\* One loop iteration of thread t: one compare-and-swap.
AcquireScan(t) ==
  /\ pc[t] = "scan"
  /\ loc[t].i < n_
  /\ LET r == LoopIter(uses, last[t], loc[t])
     IN /\ uses' = r.uses
        /\ last' = [last EXCEPT ![t] = r.last]
        /\ IF r.ret # <<>>
             THEN Returned(t, r)
             ELSE /\ loc' = [loc EXCEPT ![t] = r.loc]
                  /\ UNCHANGED <<pc, held, scenario>>
  /\ UNCHANGED n_
  /\ UNCHANGED mgrvars
  /\ UNCHANGED ldvars

\* The loop ended without an idle slot: the fetch-add on min_idx.
AcquireSlow(t) ==
  /\ pc[t] = "scan"
  /\ loc[t].i >= n_
  /\ LET r == SlowPath(uses, last[t], loc[t])
     IN /\ uses' = r.uses
        /\ Returned(t, r)
  /\ UNCHANGED <<n_, last>>
  /\ UNCHANGED mgrvars
  /\ UNCHANGED ldvars

\* free(where), called once for an acquisition the thread still owns.
Free(t, where) ==
  /\ pc[t] = "idle"
  /\ held[t][where] > 0
  /\ uses' = FreeCounter(uses, where)
  /\ held' = [held EXCEPT ![t][where] = @ - 1]
  /\ scenario' = AfterFree(scenario, uses', \A o \in Threads : pc[o] = "idle")
  /\ UNCHANGED <<n_, last, pc, loc>>
  /\ UNCHANGED mgrvars
  /\ UNCHANGED ldvars

NextLB ==
  \/ \E t \in Threads : AcquireBegin(t)
  \/ \E t \in Threads : AcquireScan(t)
  \/ \E t \in Threads : AcquireSlow(t)
  \/ \E t \in Threads, where \in Slots : Free(t, where)

SpecLB == InitLB /\ [][NextLB]_vars

\* A thread inside acquire keeps being scheduled; nothing else is promised:
\* no thread has to call acquire or free.
SpecLBFair ==
  SpecLB /\ \A t \in Threads : WF_vars(AcquireScan(t) \/ AcquireSlow(t))

\* A whole call of acquire while no other thread operates on the
\* LoadBalancer.
AcquireAlone(t) ==
  /\ \A o \in Threads : pc[o] = "idle"
  /\ HeldCount(t) < MaxHeld
  /\ LET r == AcquireCall(uses, last[t])
     IN /\ uses' = r.uses
        /\ last' = [last EXCEPT ![t] = r.last]
        /\ Returned(t, r)
  /\ UNCHANGED n_
  /\ UNCHANGED mgrvars
  /\ UNCHANGED ldvars

\* The LoadBalancer used by threads whose calls never overlap.
NextSeq ==
  \/ \E t \in Threads : AcquireAlone(t)
  \/ \E t \in Threads, where \in Slots : Free(t, where)

SpecSeq == InitLB /\ [][NextSeq]_vars

\* ======================= exceptions =======================================
\* An exception is its dynamic type and its message, a sequence of strings:
\* the text given where it was raised, behind the notes added on the way out.
Error(m) == [kind |-> "c10::Error", msg |-> <<m>>]

RuntimeError(m) == [kind |-> "std::runtime_error", msg |-> <<m>>]

\* A failure of the embedded runtime (pickling, unpickling, running embedded
\* code) or of Package: some exception derived from std::exception, with the
\* text its what() gives.
ImplError == [kind |-> "std::exception", msg |-> <<"what()">>]

\* TORCH_DEPLOY_TRY ... TORCH_DEPLOY_SAFE_CATCH_RETHROW around a body that
\* threw e: e is caught and a c10::Error is thrown whose message is a note
\* followed by e's message.
DeployRethrow_Pass(e) == e

DeployRethrow(e) ==
  [kind |-> "c10::Error", msg |-> <<"caught inside torch::deploy">> \o e.msg]

\* What the steps of Interpreter::Interpreter throw when they fail.
InterpreterThrow(step) ==
  CASE step = "mkstemp" -> Error("failed to create temporary file")
    [] step = "select" -> Error("torch::deploy requires a build-time dependency on embedded_interpreter or embedded_interpreter_cuda")
    [] step = "write_dst" -> Error("dst")
    [] step = "write" -> Error("expected written == size")
    [] step = "dlopen" -> RuntimeError("dlerror()")
    [] step = "set_self" -> Error("deploy_set_self_ptr")
    [] step = "new_impl" -> Error("new_interpreter_impl")

FailSteps ==
  {"mkstemp", "select", "write_dst", "write", "dlopen", "set_self", "new_impl"}

\* What one iteration of the manager's constructor loop can throw: the
\* Interpreter's construction, or the embedded code run by the setup.
LoopThrows ==
  {InterpreterThrow(step) : step \in FailSteps} \cup {ImplError}

\* ======================= InterpreterManager ==============================
\* An interpreter is named by its slot 0 .. n_-1 in the pool, or by -1 for
\* an Interpreter that belongs to no manager (manager_ == nullptr).
Interps == Slots \cup {-1}

InPool(k) == k >= 0

InterpAt(k) == instances_[k + 1]

\* The setup of the loop body for instance i: torch.version.interp = int(i)
\* through a session on the new instance, then set_find_module.
SetUp_TagZero(inst, i) == [inst EXCEPT !.interp = 0, !.find_module = TRUE]

SetUp(inst, i) == [inst EXCEPT !.interp = i, !.find_module = TRUE]

\* register_module_source(name, src): registered_module_sources_[name] = src.
Register(reg, name, text) ==
  [nm \in (DOMAIN reg) \cup {name} |-> IF nm = name THEN text ELSE reg[nm]]

\* The callback given to set_find_module: find(name) in the manager's map,
\* it->second when found and nullopt otherwise.  <<>> stands for nullopt.
FindModule_Key(reg, name) == IF name \in DOMAIN reg THEN <<name>> ELSE <<>>

FindModule(reg, name) == IF name \in DOMAIN reg THEN <<reg[name]>> ELSE <<>>

\* What instance k's module loader gets for `name`: the callback captured
\* `this`, so it reads the map as it is when it is called.
InstanceLookup(k, name) ==
  IF instances_[k + 1].find_module
    THEN FindModule(registered_module_sources_, name)
    ELSE <<>>

\* One iteration of the constructor's loop; ok = FALSE: the construction of
\* the Interpreter or its setup throws, which aborts the constructor and
\* destroys the members built so far.
CtorLoop(ok) ==
  /\ mgr_pc = "ctor"
  /\ Len(instances_) < n_
  /\ IF ok
       THEN /\ instances_' = Append(instances_,
                                    SetUp(NewInterpreter, Len(instances_)))
            /\ mgr_pc' = mgr_pc
            /\ mgr_err' = mgr_err
       ELSE /\ instances_' = <<>>
            /\ mgr_pc' = "failed"
            /\ \E e \in LoopThrows : mgr_err' = <<DeployRethrow(e)>>
  /\ UNCHANGED <<n_, uses, last, registered_module_sources_,
                 registered_ever, next_object_id_, objs, sess, pend, raised,
                 err>>
  /\ UNCHANGED lbvars
  /\ UNCHANGED ldvars

\* After the loop: the pre-registered module, and the constructor returns.
CtorRegister ==
  /\ mgr_pc = "ctor"
  /\ Len(instances_) = n_
  /\ registered_module_sources_' =
       Register(registered_module_sources_, "GetArgumentNamesModule",
                "getArgumentNames_src")
  /\ registered_ever' =
       [registered_ever EXCEPT !["GetArgumentNamesModule"] =
          @ \cup {"getArgumentNames_src"}]
  /\ mgr_pc' = "ready"
  /\ UNCHANGED <<n_, uses, last, instances_, next_object_id_, objs,
                 sess, pend, raised, err, mgr_err>>
  /\ UNCHANGED lbvars
  /\ UNCHANGED ldvars

RegisterModuleSource(name, text) ==
  /\ mgr_pc = "ready"
  /\ registered_module_sources_' =
       Register(registered_module_sources_, name, text)
  /\ registered_ever' = [registered_ever EXCEPT ![name] = @ \cup {text}]
  /\ UNCHANGED <<n_, uses, last, mgr_pc, instances_, next_object_id_,
                 objs, sess, pend, raised, err, mgr_err>>
  /\ UNCHANGED lbvars
  /\ UNCHANGED ldvars

\* load_package(uri) / load_package(reader): Package(.., this), the external
\* collaborator; ok = FALSE: its construction raises.
LoadPackage(t, ok) ==
  /\ mgr_pc = "ready"
  /\ pend[t] = <<>>
  /\ raised' = [raised EXCEPT ![t] = ~ok]
  /\ err' = [err EXCEPT ![t] =
               IF ok THEN <<>> ELSE <<DeployRethrow(ImplError)>>]
  /\ UNCHANGED <<n_, uses, last, mgr_pc, instances_,
                 registered_module_sources_, registered_ever, next_object_id_,
                 objs, sess, pend, mgr_err>>
  /\ UNCHANGED lbvars
  /\ UNCHANGED ldvars

\* ======================= InterpreterSession ==============================
\* Interpreter::acquire_session(): a session of that interpreter carrying the
\* interpreter's manager_, notify_idx_ = -1, no self.
NewSession(k) ==
  [interp |-> k, manager |-> InPool(k), notify_idx_ |-> -1, self |-> <<>>]

\* InterpreterManager::acquire_one(): where = resources_.acquire(), a session
\* of instances_[where] with notify_idx_ = where.
TagSession(I, where) == [I EXCEPT !.notify_idx_ = where]

\* ~InterpreterSession.
SessionDtor_SkipZero(u, I) ==
  IF I.manager /\ I.notify_idx_ > 0 THEN FreeCounter(u, I.notify_idx_) ELSE u

SessionDtor(u, I) ==
  IF I.manager /\ I.notify_idx_ >= 0 THEN FreeCounter(u, I.notify_idx_) ELSE u

Busy(t) == pend[t] # <<>>

AcquireOne(t) ==
  /\ mgr_pc = "ready"
  /\ sess[t] = <<>>
  /\ LET r == AcquireCall(uses, last[t])
     IN /\ uses' = r.uses
        /\ last' = [last EXCEPT ![t] = r.last]
        /\ sess' = [sess EXCEPT ![t] = <<TagSession(NewSession(r.ret[1]),
                                                    r.ret[1])>>]
  /\ UNCHANGED <<n_, mgr_pc, instances_, registered_module_sources_,
                 registered_ever, next_object_id_, objs, pend, raised, err, mgr_err>>
  /\ UNCHANGED lbvars
  /\ UNCHANGED ldvars

AcquireDirect(t, k) ==
  /\ mgr_pc = "ready"
  /\ sess[t] = <<>>
  /\ sess' = [sess EXCEPT ![t] = <<NewSession(k)>>]
  /\ UNCHANGED <<n_, uses, last, mgr_pc, instances_,
                 registered_module_sources_, registered_ever, next_object_id_,
                 objs, pend, raised, err, mgr_err>>
  /\ UNCHANGED lbvars
  /\ UNCHANGED ldvars

DestroySession(t) ==
  /\ sess[t] # <<>>
  /\ ~Busy(t)
  /\ uses' = SessionDtor(uses, sess[t][1])
  /\ sess' = [sess EXCEPT ![t] = <<>>]
  /\ raised' = [raised EXCEPT ![t] = FALSE]
  /\ err' = [err EXCEPT ![t] = <<>>]
  /\ UNCHANGED <<n_, last, mgr_pc, instances_,
                 registered_module_sources_, registered_ever, next_object_id_,
                 objs, pend, mgr_err>>
  /\ UNCHANGED lbvars
  /\ UNCHANGED ldvars

\* ======================= the embedded runtime's capabilities ==============
\* InterpreterSessionImpl::pickle / unpickle: a value as two bytes, low byte
\* first, and back.
Pickle(x) == <<x % 256, x \div 256>>

Unpickle(data) == data[1] + 256 * data[2]

\* InterpreterSessionImpl::unpickle_or_get(id, data): the object already
\* associated with id in this instance, else the payload deserialized and
\* associated with id.  ok = FALSE: the deserialization raises.
\* ret = <<>> stands for the exception, which is then exc[1].
UnpickleOrGet(inst, id, data, ok) ==
  IF inst.objs[id] # <<>>
    THEN [inst |-> inst, ret |-> inst.objs[id], hit |-> TRUE, exc |-> <<>>]
    ELSE IF ok
      THEN [inst |-> [inst EXCEPT !.objs[id] = <<Unpickle(data)>>],
            ret |-> <<Unpickle(data)>>, hit |-> FALSE, exc |-> <<>>]
      ELSE [inst |-> inst, ret |-> <<>>, hit |-> FALSE,
            exc |-> <<ImplError>>]

\* InterpreterSessionImpl::unload(id).
ImplUnload(inst, id) == [inst EXCEPT !.objs[id] = <<>>]

\* ======================= ReplicatedObj protocol ===========================
\* InterpreterSession::from_movable(obj) in a session of interpreter inst.
SessionFromMovable_NoTry(inst, o, ok) ==
  UnpickleOrGet(inst, o.object_id_, o.data_, ok)

SessionFromMovable(inst, o, ok) ==
  LET r == UnpickleOrGet(inst, o.object_id_, o.data_, ok)
  IN IF r.exc = <<>> THEN r ELSE [r EXCEPT !.exc = <<DeployRethrow(@[1])>>]

\* `manager_->next_object_id_++`: the value after the increment.
NextObjectId_Same(id) == id

NextObjectId(id) == id + 1

\* create_movable's precondition TORCH_CHECK(manager_, ...).
CreateCheckError ==
  Error("Can only create a movable object when the session was created from an interpreter that is part of a InterpreterManager")

CreateCheck_None(I) == TRUE

CreateCheck(I) == I.manager

\* The payload create_movable stores: impl_->pickle(self, obj).
CreatePayload_Self(I, x) ==
  Pickle(IF I.self # <<>> THEN I.self[1] ELSE 0)

CreatePayload(I, x) == Pickle(x)

\* The ReplicatedObjImpl made by create_movable; alive while a ReplicatedObj
\* handle refers to it; orig is the value that was given, kept for the
\* claims.
NewObj(id, p) ==
  [object_id_ |-> id, data_ |-> p.data, orig |-> p.orig, alive |-> TRUE]

Live(k) == k \in 1 .. Len(objs) /\ objs[k].alive

InFlight == Cardinality({t \in Threads : pend[t] # <<>>})

\* create_movable up to the pickling: the check of manager_, then
\* impl_->pickle; ok = FALSE: the pickling raises.
CreateMovableBegin(t, x, ok) ==
  /\ sess[t] # <<>>
  /\ ~Busy(t)
  /\ LET I == sess[t][1]
     IN IF CreateCheck(I) /\ ok
          THEN /\ Len(objs) + InFlight < MaxObjects
               /\ pend' = [pend EXCEPT ![t] =
                             <<[data |-> CreatePayload(I, x), orig |-> x]>>]
               /\ raised' = [raised EXCEPT ![t] = FALSE]
               /\ err' = [err EXCEPT ![t] = <<>>]
          ELSE /\ pend' = pend
               /\ raised' = [raised EXCEPT ![t] = TRUE]
               /\ err' = [err EXCEPT ![t] =
                            <<DeployRethrow(IF ~CreateCheck(I)
                                              THEN CreateCheckError
                                              ELSE ImplError)>>]
  /\ UNCHANGED <<n_, uses, last, mgr_pc, instances_,
                 registered_module_sources_, registered_ever, next_object_id_,
                 objs, sess, mgr_err>>
  /\ UNCHANGED lbvars
  /\ UNCHANGED ldvars

\* create_movable's return statement: the id is taken and the counter
\* incremented in one atomic step, and the ReplicatedObjImpl is made.
CreateMovableFinish(t) ==
  /\ Busy(t)
  /\ objs' = Append(objs, NewObj(next_object_id_, pend[t][1]))
  /\ next_object_id_' = NextObjectId(next_object_id_)
  /\ pend' = [pend EXCEPT ![t] = <<>>]
  /\ raised' = [raised EXCEPT ![t] = FALSE]
  /\ err' = [err EXCEPT ![t] = <<>>]
  /\ UNCHANGED <<n_, uses, last, mgr_pc, instances_,
                 registered_module_sources_, registered_ever, sess, mgr_err>>
  /\ UNCHANGED lbvars
  /\ UNCHANGED ldvars

\* The pool with instance k replaced by inst.
PutInstances_Every(k, inst) ==
  [j \in DOMAIN instances_ |-> [instances_[j] EXCEPT !.objs = inst.objs]]

PutInstances(k, inst) == [instances_ EXCEPT ![k + 1] = inst]

FromMovable(t, k, ok) ==
  /\ sess[t] # <<>>
  /\ ~Busy(t)
  /\ Live(k)
  /\ InPool(sess[t][1].interp)
  /\ LET I == sess[t][1]
         r == SessionFromMovable(InterpAt(I.interp), objs[k], ok)
     IN IF r.ret = <<>>
          THEN /\ raised' = [raised EXCEPT ![t] = TRUE]
               /\ err' = [err EXCEPT ![t] = r.exc]
               /\ UNCHANGED <<instances_, sess>>
          ELSE /\ raised' = [raised EXCEPT ![t] = FALSE]
               /\ err' = [err EXCEPT ![t] = <<>>]
               /\ instances_' = PutInstances(I.interp, r.inst)
               /\ sess' = sess
  /\ UNCHANGED <<n_, uses, last, mgr_pc, registered_module_sources_,
                 registered_ever, next_object_id_, objs, pend, mgr_err>>
  /\ UNCHANGED lbvars
  /\ UNCHANGED ldvars

\* `I.self = I.from_movable(*this)` when from_movable returned r.
SelfAfter_Unset(I, r) == I

SelfAfter(I, r) == [I EXCEPT !.self = r.ret]

\* An exception leaving ReplicatedObj::acquire_session unwinds its local
\* session I: ~InterpreterSession runs on it.
Unwind_Leak(u, I) == u

Unwind(u, I) == SessionDtor(u, I)

\* ReplicatedObj::acquire_session once the session I0 exists (u1, l1: the
\* counters and the thread's `last` after it was acquired):
\* I.self = I.from_movable(*this); an exception destroys I on the way out.
ObjAcquire(t, k, I0, u1, l1, ok) ==
  LET r == SessionFromMovable(InterpAt(I0.interp), objs[k], ok)
  IN /\ last' = [last EXCEPT ![t] = l1]
     /\ IF r.ret = <<>>
          THEN /\ uses' = Unwind(u1, I0)
               /\ raised' = [raised EXCEPT ![t] = TRUE]
               /\ err' = [err EXCEPT ![t] = <<DeployRethrow(r.exc[1])>>]
               /\ UNCHANGED <<instances_, sess>>
          ELSE /\ uses' = u1
               /\ raised' = [raised EXCEPT ![t] = FALSE]
               /\ err' = [err EXCEPT ![t] = <<>>]
               /\ instances_' = PutInstances(I0.interp, r.inst)
               /\ sess' = [sess EXCEPT ![t] = <<SelfAfter(I0, r)>>]

\* acquire_session(on_this_interpreter) with an interpreter given.
ObjAcquireSessionOn(t, k, target, ok) ==
  /\ mgr_pc = "ready"
  /\ sess[t] = <<>>
  /\ Live(k)
  /\ ObjAcquire(t, k, NewSession(target), uses, last[t], ok)
  /\ UNCHANGED <<n_, mgr_pc, registered_module_sources_, registered_ever,
                 next_object_id_, objs, pend, mgr_err>>
  /\ UNCHANGED lbvars
  /\ UNCHANGED ldvars

\* acquire_session() with none: pImpl_->manager_->acquire_one().
ObjAcquireSessionAny(t, k, ok) ==
  /\ mgr_pc = "ready"
  /\ sess[t] = <<>>
  /\ Live(k)
  /\ LET a == AcquireCall(uses, last[t])
     IN ObjAcquire(t, k, TagSession(NewSession(a.ret[1]), a.ret[1]),
                   a.uses, a.last, ok)
  /\ UNCHANGED <<n_, mgr_pc, registered_module_sources_, registered_ever,
                 next_object_id_, objs, pend, mgr_err>>
  /\ UNCHANGED lbvars
  /\ UNCHANGED ldvars

\* ReplicatedObjImpl::unload(nullptr): unload(&interp) for every interp of
\* manager_->all_instances(), each through a session of its own.
UnloadEvery_First(insts, id) ==
  [j \in DOMAIN insts |-> IF j = 1 THEN ImplUnload(insts[j], id) ELSE insts[j]]

UnloadEvery(insts, id) == [j \in DOMAIN insts |-> ImplUnload(insts[j], id)]

\* ReplicatedObj::unload(on_this_interpreter) with an interpreter given.
UnloadOn(k, target) ==
  /\ mgr_pc = "ready"
  /\ Live(k)
  /\ instances_' =
       PutInstances(target, ImplUnload(InterpAt(target), objs[k].object_id_))
  /\ UNCHANGED <<n_, uses, last, mgr_pc, registered_module_sources_,
                 registered_ever, next_object_id_, objs, sess, pend, raised, err, mgr_err>>
  /\ UNCHANGED lbvars
  /\ UNCHANGED ldvars

\* ReplicatedObj::unload(nullptr).
UnloadAll(k) ==
  /\ mgr_pc = "ready"
  /\ Live(k)
  /\ instances_' = UnloadEvery(instances_, objs[k].object_id_)
  /\ UNCHANGED <<n_, uses, last, mgr_pc, registered_module_sources_,
                 registered_ever, next_object_id_, objs, sess, pend, raised, err, mgr_err>>
  /\ UNCHANGED lbvars
  /\ UNCHANGED ldvars

\* The last ReplicatedObj handle is destroyed: ~ReplicatedObjImpl runs
\* unload(nullptr).
DropLastHandle(k) ==
  /\ Live(k)
  /\ objs' = [objs EXCEPT ![k].alive = FALSE]
  /\ instances_' = UnloadEvery(instances_, objs[k].object_id_)
  /\ UNCHANGED <<n_, uses, last, mgr_pc, registered_module_sources_,
                 registered_ever, next_object_id_, sess, pend, raised, err, mgr_err>>
  /\ UNCHANGED lbvars
  /\ UNCHANGED ldvars

Next ==
  \/ \E ok \in BOOLEAN : CtorLoop(ok)
  \/ CtorRegister
  \/ \E t \in Threads : AcquireOne(t)
  \/ \E t \in Threads, k \in Interps : AcquireDirect(t, k)
  \/ \E t \in Threads : DestroySession(t)
  \/ \E t \in Threads, x \in Values, ok \in BOOLEAN : CreateMovableBegin(t, x, ok)
  \/ \E t \in Threads : CreateMovableFinish(t)
  \/ \E t \in Threads, k \in 1 .. MaxObjects, ok \in BOOLEAN :
       FromMovable(t, k, ok)
  \/ \E t \in Threads, k \in 1 .. MaxObjects, target \in Slots,
        ok \in BOOLEAN : ObjAcquireSessionOn(t, k, target, ok)
  \/ \E t \in Threads, k \in 1 .. MaxObjects, ok \in BOOLEAN :
       ObjAcquireSessionAny(t, k, ok)
  \/ \E k \in 1 .. MaxObjects, target \in Slots : UnloadOn(k, target)
  \/ \E k \in 1 .. MaxObjects : UnloadAll(k)
  \/ \E k \in 1 .. MaxObjects : DropLastHandle(k)

Spec == Init /\ [][Next]_vars

\* Every operation that can raise, on a pool of one interpreter.
NextErr ==
  \/ Next
  \/ \E t \in Threads, ok \in BOOLEAN : LoadPackage(t, ok)

SpecErr == InitWith(OnePool) /\ [][NextErr]_vars

\* Every operation together, with one module source to register.
NextAll ==
  \/ Next
  \/ RegisterModuleSource("mod", "text")

SpecAll == Init /\ [][NextAll]_vars

\* The manager with its module sources and plain sessions only.
NextMgr ==
  \/ \E ok \in BOOLEAN : CtorLoop(ok)
  \/ CtorRegister
  \/ \E name \in Names, text \in Texts : RegisterModuleSource(name, text)
  \/ \E t \in Threads : AcquireOne(t)
  \/ \E t \in Threads, k \in Interps : AcquireDirect(t, k)
  \/ \E t \in Threads : DestroySession(t)

SpecMgr == Init /\ [][NextMgr]_vars

\* ======================= the embedded image ===============================
\* `(lib_end - lib_start) > 0`.
RangeCheck_Ge(lib_start, lib_end) == (lib_end - lib_start) >= 0

RangeCheck(lib_start, lib_end) == (lib_end - lib_start) > 0

\* The three TORCH_CHECKs of register_embedded_interpreter[_cuda], in order:
\* <<>> when they pass, else <<the c10::Error of the first that fails>>.
RegisterChecks(lib_start, lib_end, libsize) ==
  IF ~(lib_start # 0) THEN <<Error("expected non-null lib_start")>>
  ELSE IF ~(lib_end # 0) THEN <<Error("expected non-null lib_end")>>
  ELSE IF ~RangeCheck(lib_start, lib_end)
    THEN <<Error("expected " \o libsize \o " > 0")>>
  ELSE <<>>

\* The program is sequential here: a registration is not made while the
\* constructor or the destructor of the Interpreter runs.
Quiet == itp.pc \in {"none", "live", "failed", "destroyed"}

register_embedded_interpreter(lib_start, lib_end) ==
  /\ Quiet
  /\ LET e == RegisterChecks(lib_start, lib_end,
                             "embedded_interpreter_libsize")
     IN /\ ld_err' = e
        /\ IF e # <<>>
             THEN UNCHANGED <<embedded_interpreter_so_start,
                              embedded_interpreter_so_end>>
             ELSE /\ embedded_interpreter_so_start' = lib_start
                  /\ embedded_interpreter_so_end' = lib_end
  /\ UNCHANGED <<fbcode, embedded_interpreter_cuda_so_start,
                 embedded_interpreter_cuda_so_end, binary_so, itp, os, steps>>
  /\ UNCHANGED <<n_, uses, last>>
  /\ UNCHANGED lbvars
  /\ UNCHANGED mgrvars

\* Compiled only with FBCODE_CAFFE2.
register_embedded_interpreter_cuda(lib_start, lib_end) ==
  /\ fbcode
  /\ Quiet
  /\ LET e == RegisterChecks(lib_start, lib_end,
                             "embedded_interpreter_cuda_libsize")
     IN /\ ld_err' = e
        /\ IF e # <<>>
             THEN UNCHANGED <<embedded_interpreter_cuda_so_start,
                              embedded_interpreter_cuda_so_end>>
             ELSE /\ embedded_interpreter_cuda_so_start' = lib_start
                  /\ embedded_interpreter_cuda_so_end' = lib_end
  /\ UNCHANGED <<fbcode, embedded_interpreter_so_start,
                 embedded_interpreter_so_end, binary_so, itp, os, steps>>
  /\ UNCHANGED <<n_, uses, last>>
  /\ UNCHANGED lbvars
  /\ UNCHANGED mgrvars


\* ======================= Interpreter ======================================
\* The constructor's statements in order, by build; "live" follows the last.
CtorOrder_UnlinkLast ==
  IF fbcode
    THEN <<"mkstemp", "fdopen", "select", "write", "fclose", "dlopen",
           "new_impl", "unlink">>
    ELSE <<"mkstemp", "fdopen", "select", "write", "fclose", "dlopen",
           "set_self", "new_impl", "unlink">>

CtorOrder ==
  IF fbcode
    THEN <<"mkstemp", "fdopen", "select", "write", "fclose", "dlopen",
           "unlink", "new_impl">>
    ELSE <<"mkstemp", "fdopen", "select", "write", "fclose", "dlopen",
           "unlink", "set_self", "new_impl">>

\* The destructor's statements inside `if (handle_)`, by build.
DtorOrder_CloseFirst ==
  IF fbcode THEN <<"dlclose", "reset">> ELSE <<"dlclose", "reset", "flush">>

DtorOrder ==
  IF fbcode THEN <<"reset", "dlclose">> ELSE <<"reset", "flush", "dlclose">>

\* The position after p in order, `end` after the last.
After(order, p, end) ==
  LET j == CHOOSE q \in 1 .. Len(order) : order[q] = p
  IN IF j = Len(order) THEN end ELSE order[j + 1]

\* lib_start, lib_end as the constructor selects them: with FBCODE_CAFFE2 the
\* registered cuda image when both its pointers are set, else the registered
\* image when both are set, else null; without, the linked symbol pair.
SelectImage ==
  IF fbcode
    THEN IF embedded_interpreter_cuda_so_start # 0
              /\ embedded_interpreter_cuda_so_end # 0
           THEN <<embedded_interpreter_cuda_so_start,
                  embedded_interpreter_cuda_so_end>>
         ELSE IF embedded_interpreter_so_start # 0
                   /\ embedded_interpreter_so_end # 0
           THEN <<embedded_interpreter_so_start, embedded_interpreter_so_end>>
         ELSE NoImage
    ELSE binary_so

ImageFrame ==
  /\ UNCHANGED <<fbcode, embedded_interpreter_so_start,
                 embedded_interpreter_so_end,
                 embedded_interpreter_cuda_so_start,
                 embedded_interpreter_cuda_so_end, binary_so>>
  /\ UNCHANGED <<n_, uses, last>>
  /\ UNCHANGED lbvars
  /\ UNCHANGED mgrvars

\* The statement at position p has completed.
Done(p, obj, env) ==
  /\ itp' = [obj EXCEPT !.pc = After(CtorOrder, p, "live")]
  /\ os' = env
  /\ steps' = Append(steps, p)
  /\ ld_err' = <<>>
  /\ ImageFrame

\* The constructor throws: the object never comes to exist and its
\* destructor never runs; what it did outside the process stays.
Throw(step, env) ==
  /\ itp' = [NoInterpreter EXCEPT !.pc = "failed"]
  /\ os' = env
  /\ steps' = steps
  /\ ld_err' = <<InterpreterThrow(step)>>
  /\ ImageFrame

\* Interpreter(manager): the member initializers handle_(nullptr),
\* manager_(manager).
InterpreterBegin ==
  /\ itp.pc = "none"
  /\ itp' = [NoInterpreter EXCEPT !.pc = CtorOrder[1]]
  /\ steps' = <<>>
  /\ ld_err' = <<>>
  /\ os' = os
  /\ ImageFrame

\* fd = mkstemp(library_name); ok = FALSE: it returns -1.
Mkstemp(ok) ==
  /\ itp.pc = "mkstemp"
  /\ IF ok THEN Done("mkstemp", itp, [os EXCEPT !.tmp = "empty"])
           ELSE Throw("mkstemp", os)

\* dst = fdopen(fd, "wb"); ok = FALSE: it returns NULL.
Fdopen(ok) ==
  /\ itp.pc = "fdopen"
  /\ Done("fdopen", [itp EXCEPT !.dst = IF ok THEN "open" ELSE "null"], os)

\* The choice of lib_start, lib_end and the TORCH_CHECK that both are set.
Select ==
  /\ itp.pc = "select"
  /\ LET lib == SelectImage
     IN IF lib[1] # 0 /\ lib[2] # 0
          THEN Done("select", [itp EXCEPT !.lib = lib], os)
          ELSE Throw("select", os)

\* write_tmp_lib(dst, lib_start, lib_end): fwrite wrote `written` bytes.
WriteTmpLib(written) ==
  /\ itp.pc = "write"
  /\ LET size == itp.lib[2] - itp.lib[1]
     IN /\ written \in 0 .. size
        /\ IF itp.dst = "null" THEN Throw("write_dst", os)
           ELSE IF size = written
             THEN Done("write", itp, [os EXCEPT !.tmp = "image"])
           ELSE Throw("write", [os EXCEPT !.tmp = "short"])

Fclose ==
  /\ itp.pc = "fclose"
  /\ Done("fclose", [itp EXCEPT !.dst = "closed"], os)

\* handle_ = dlopen(library_name, flags); it returns NULL when ok = FALSE
\* and when the file does not hold the whole image.
Dlopen(ok) ==
  /\ itp.pc = "dlopen"
  /\ IF ok /\ os.tmp = "image"
       THEN Done("dlopen", [itp EXCEPT !.handle_ = 1],
                 [os EXCEPT !.mapped = TRUE])
       ELSE Throw("dlopen", os)

\* unlink(library_name_.c_str()).
Unlink ==
  /\ itp.pc = "unlink"
  /\ Done("unlink", itp, [os EXCEPT !.tmp = "none"])

\* Without FBCODE_CAFFE2: dlsym(handle_, "deploy_set_self"), the assertion
\* and the call; found = FALSE: dlsym returns NULL.
SetSelf(found) ==
  /\ itp.pc = "set_self"
  /\ IF found /\ os.mapped THEN Done("set_self", itp, os) ELSE Throw("set_self", os)

\* dlsym(handle_, "new_interpreter_impl"), the assertion and the call that
\* makes the implementation object.
NewImpl(found) ==
  /\ itp.pc = "new_impl"
  /\ IF found /\ os.mapped
       THEN Done("new_impl", [itp EXCEPT !.pImpl_ = TRUE],
                 [os EXCEPT !.impl = TRUE])
       ELSE Throw("new_impl", os)

\* Another Interpreter is move-constructed from this one (instances_ grows):
\* it takes the handle and the implementation, this one is left with
\* handle_ = nullptr.
MoveFrom ==
  /\ itp.pc = "live"
  /\ itp.handle_ # 0
  /\ itp' = [itp EXCEPT !.handle_ = 0, !.pImpl_ = FALSE]
  /\ os' = [os EXCEPT !.moved = TRUE]
  /\ UNCHANGED <<steps, ld_err>>
  /\ ImageFrame

\* ~Interpreter: `if (handle_)`.
DtorBegin ==
  /\ itp.pc = "live"
  /\ itp' = [itp EXCEPT !.pc = IF itp.handle_ # 0 THEN DtorOrder[1]
                               ELSE "destroyed"]
  /\ UNCHANGED <<os, steps, ld_err>>
  /\ ImageFrame

\* A statement of the destructor has completed.
DtorDone(p, obj, env) ==
  /\ itp' = [obj EXCEPT !.pc = After(DtorOrder, p, "destroyed")]
  /\ os' = env
  /\ steps' = Append(steps, p)
  /\ UNCHANGED ld_err
  /\ ImageFrame

\* pImpl_.reset().
Reset ==
  /\ itp.pc = "reset"
  /\ DtorDone("reset", [itp EXCEPT !.pImpl_ = FALSE],
              [os EXCEPT !.impl = FALSE])

\* Without FBCODE_CAFFE2: dlsym(handle_, "deploy_flush_python_libs") and the
\* call, in a module that exports it.
Flush ==
  /\ itp.pc = "flush"
  /\ DtorDone("flush", itp, os)

\* dlclose(handle_).
Dlclose ==
  /\ itp.pc = "dlclose"
  /\ DtorDone("dlclose", itp, [os EXCEPT !.mapped = FALSE])

\* The image registration and the life of one Interpreter, in both builds,
\* with and without a linked image.
InitInterp == InitCore(OnePool) /\ InitLoader(BOOLEAN, {NoImage, LinkedImage})

NextInterp ==
  \/ \E a, b \in Addrs : register_embedded_interpreter(a, b)
  \/ \E a, b \in Addrs : register_embedded_interpreter_cuda(a, b)
  \/ InterpreterBegin
  \/ \E ok \in BOOLEAN : Mkstemp(ok)
  \/ \E ok \in BOOLEAN : Fdopen(ok)
  \/ Select
  \/ \E written \in 0 .. MaxAddr : WriteTmpLib(written)
  \/ Fclose
  \/ \E ok \in BOOLEAN : Dlopen(ok)
  \/ Unlink
  \/ \E found \in BOOLEAN : SetSelf(found)
  \/ \E found \in BOOLEAN : NewImpl(found)
  \/ MoveFrom
  \/ DtorBegin
  \/ Reset
  \/ Flush
  \/ Dlclose

SpecInterp == InitInterp /\ [][NextInterp]_vars

\* ---- claims about the LoadBalancer (SpecLB) ------------------------------
Outstanding(s) ==
  LET RECURSIVE Sum(_)
      Sum(T) == IF T = {} THEN 0
                ELSE LET t == CHOOSE x \in T : TRUE
                     IN held[t][s] + Sum(T \ {t})
  IN Sum(Threads)

\* C1: from counters all 0, k <= n_ acquires run one after the other with no
\* free in between return pairwise distinct slots in 0..n_-1, each through the
\* fast path; n_ of them cover every slot and leave every counter at 1; and
\* once they are all freed the next acquire again takes the fast path.
C1_DistinctSlots ==
  scenario.phase \in {"fill", "drain", "refill"} =>
    LET sl == scenario.slots
    IN /\ Len(sl) <= n_
       /\ \A a \in 1 .. Len(sl) : sl[a].slot \in Slots /\ sl[a].fast
       /\ \A a, b \in 1 .. Len(sl) : a # b => sl[a].slot # sl[b].slot
       /\ (Len(sl) = n_ /\ scenario.phase # "drain") =>
            /\ {sl[a].slot : a \in 1 .. Len(sl)} = Slots
            /\ \A s \in Slots : uses[s] = 1

\* n_ >= 2 acquires filled the pool, all were freed, and one more acquire
\* has returned.
C1_Witness ==
  n_ >= 2 /\ scenario.phase = "refill" /\ Len(scenario.slots) = 1

\* C2: each counter equals the number of acquisitions of its slot that have
\* returned and are not yet freed; it is never below 0 (never wrapped), and
\* it is 0 once every acquisition is freed.
C2_CounterIsOutstanding ==
  \A s \in Slots : uses[s] = Outstanding(s) /\ uses[s] >= 0

\* Frees have run after a full pool, one acquisition is still unfreed and a
\* thread is inside acquire.
C2_Witness ==
  /\ scenario.phase = "drain"
  /\ \E s \in Slots : uses[s] = 0
  /\ \E s \in Slots : uses[s] = 1
  /\ \E t \in Threads : pc[t] = "scan" /\ loc[t].i > 0

\* C13: in every interleaving, a step in which an acquire returns slot s
\* through the fast path (a loop iteration, not the fetch-add) changes the
\* counter of s from 0 to 1 and nothing else, no acquisition of s is unfreed
\* at that instant, and afterwards the compare-and-swap of any other thread
\* racing for s fails: at most one of them wins s.
C13_FastPath ==
  [][\A t \in Threads, s \in 0 .. (MaxSlots - 1) :
       (held'[t][s] = held[t][s] + 1 /\ loc[t].i < n_)
         => /\ uses[s] = 0
            /\ uses' = [uses EXCEPT ![s] = 1]
            /\ \A o \in Threads : held[o][s] = 0
            /\ \A o \in Threads \ {t} :
                 (pc'[o] = "scan" /\ loc'[o].i < n_
                    /\ WrapLast(last'[o]) = s)
                   => LoopIter(uses', last'[o], loc'[o]).ret = <<>>
    ]_vars

\* Two threads entered acquire with the same idle slot first in their scans;
\* one has returned it, the other has not yet made its first
\* compare-and-swap.
C13_Witness ==
  \E t, o \in Threads, s \in Slots :
    /\ t # o
    /\ n_ >= 2
    /\ held[t][s] = 1 /\ uses[s] = 1 /\ last[t] = s /\ pc[t] = "idle"
    /\ \A s2 \in Slots \ {s} : uses[s2] = 0
    /\ pc[o] = "scan" /\ loc[o].i = 0 /\ WrapLast(last[o]) = s

\* C16: a call of acquire makes at most n_ compare-and-swap attempts, each
\* either returning or moving on to the next attempt, then at most one
\* fetch-add, which returns; it never goes back and never waits, whatever
\* the other thread does.  So a thread that keeps being scheduled leaves
\* every call of acquire with a slot, even if no slot is ever freed.
C16_Terminates ==
  /\ [](\A t \in Threads : loc[t].i \in 0 .. n_)
  /\ [][\A t \in Threads :
          (pc[t] = "scan" /\ (pc'[t] # pc[t] \/ loc'[t] # loc[t]
                                \/ last'[t] # last[t]))
            => \/ /\ loc[t].i < n_
                  /\ \/ /\ pc'[t] = "idle"
                        /\ \E s \in Slots :
                             /\ held'[t][s] = held[t][s] + 1
                             /\ uses' = [uses EXCEPT ![s] = 1]
                     \/ /\ pc'[t] = "scan"
                        /\ loc'[t].i = loc[t].i + 1
                        /\ uses' = uses
               \/ /\ loc[t].i = n_
                  /\ pc'[t] = "idle"
                  /\ \E s \in Slots :
                       /\ held'[t][s] = held[t][s] + 1
                       /\ uses' = [uses EXCEPT ![s] = @ + 1]
       ]_vars
  /\ \A t \in Threads : (pc[t] = "scan") ~> (pc[t] = "idle")

\* One thread holds both slots of a pool of two and has not freed any; the
\* other thread's acquire has returned all the same, through the fetch-add.
C16_Witness ==
  /\ n_ = 2
  /\ \E t, o \in Threads :
       /\ t # o
       /\ held[o][0] = 1 /\ held[o][1] = 1
       /\ HeldCount(t) = 1 /\ pc[t] = "idle"
       /\ \E s \in Slots : uses[s] = 2

\* ---- claims about acquire run alone (SpecSeq) ----------------------------
\* The slots in scan order from the starting offset, wrapping around.
ScanOrder(start) == [j \in 1 .. n_ |-> (start + j - 1) % n_]

\* The least position of a set of positions.
First(P) == CHOOSE j \in P : \A q \in P : j <= q

\* The slot C14 names for counters u and thread-local offset l.
Preferred(u, l) ==
  LET ord == ScanOrder(WrapLast(l))
      idle == {j \in 1 .. n_ : u[ord[j]] = 0}
      least == {j \in 1 .. n_ : \A q \in 1 .. n_ : u[ord[j]] <= u[ord[q]]}
  IN IF idle # {} THEN ord[First(idle)] ELSE ord[First(least)]

\* C14: a call of acquire that runs alone returns the first slot with
\* counter 0 in scan order from the thread's offset and sets that counter to
\* 1; with no such slot it returns the slot of least counter, the first one
\* met in scan order among equals, and adds exactly 1 to it.  The slot is in
\* 0..n-1 and no other counter changes.
C14_Alone ==
  [][\A t \in Threads :
       AcquireAlone(t)
         => LET s == Preferred(uses, last[t])
            IN /\ s \in Slots
               /\ held' = [held EXCEPT ![t][s] = @ + 1]
               /\ uses' = [uses EXCEPT ![s] = IF uses[s] = 0 THEN 1 ELSE @ + 1]
    ]_vars

\* Three slots, four acquisitions unfreed: the slot with counter 2 is not
\* slot 0, so a slow-path acquire among equal counters chose by scan order.
C14_Witness ==
  /\ n_ = 3
  /\ uses[0] = 1
  /\ \E s \in {1, 2} : uses[s] = 2 /\ uses[3 - s] = 1

\* The slot returned to thread t by the step.
ReturnedSlot(t) == CHOOSE s \in Slots : held'[t][s] = held[t][s] + 1

\* C15 as stated: with n >= 2 slots, the offset at which a thread's next
\* call starts its scan differs, modulo n, from the offset at which this
\* call started, on the fast path and on the slow path.
C15_Original ==
  [][\A t \in Threads :
       (n_ >= 2 /\ AcquireAlone(t))
         => WrapLast(last'[t]) # WrapLast(last[t])
    ]_vars

\* C15 (amended): with n >= 2 slots, after a fast-path return the thread's
\* next call starts its scan at the slot just returned, and after a
\* slow-path return at the offset this call started at; so the starting
\* offset differs from this call's exactly when this call found its first
\* slot busy and a later one idle.
C15_Offset ==
  [][\A t \in Threads :
       (n_ >= 2 /\ AcquireAlone(t))
         => LET start == WrapLast(last[t])
                next == WrapLast(last'[t])
            IN /\ (\E z \in Slots : uses[z] = 0) => next = ReturnedSlot(t)
               /\ (\A z \in Slots : uses[z] # 0) => next = start
               /\ next # start
                    <=> (uses[start] # 0 /\ \E z \in Slots : uses[z] = 0)
    ]_vars

\* Two successive calls of one thread on two slots: the first returned slot
\* 0 from offset 0, the second started at 0 again and returned slot 1.
C15_Witness ==
  /\ n_ = 2
  /\ \E t \in Threads :
       /\ held[t][0] = 1 /\ held[t][1] = 1 /\ last[t] = 1
       /\ \A o \in Threads \ {t} : HeldCount(o) = 0 /\ last[o] = 0

\* ---- claims about sessions and movable objects (Spec) --------------------
LoadBalanced(t, s) ==
  /\ sess[t] # <<>>
  /\ sess[t][1].manager
  /\ sess[t][1].notify_idx_ = s

Direct(t) == sess[t] # <<>> /\ sess[t][1].notify_idx_ < 0

\* The materialization of object k in pool instance j (<<>>: none).
Mat(insts, j, k) == insts[j + 1].objs[objs[k].object_id_]

\* C3: every counter equals the number of live sessions that acquire_one
\* tagged with that slot: a load-balanced session's destruction frees its
\* own slot once, and sessions bound to an interpreter directly (in the
\* constructor, in unload, by acquire_session on an interpreter) never move
\* a counter.
C3_OneFreePerSession ==
  \A s \in Slots :
    uses[s] = Cardinality({t \in Threads : LoadBalanced(t, s)})

\* A thread's load-balanced session on slot 1 was destroyed (its `last` is 1
\* and it holds no session), the counters are back to 0, and another thread
\* holds a directly bound session.
C3_Witness ==
  /\ n_ = 2
  /\ AllZero(uses)
  /\ \E t \in Threads : last[t] = 1 /\ sess[t] = <<>> /\ ~raised[t]
  /\ \E t \in Threads : Direct(t) /\ sess[t][1].manager

C5_CreateMovable ==
  [][\A t \in Threads :
       (pend'[t] # pend[t] \/ raised'[t] # raised[t]) =>
       /\ ((\E x \in Values, ok \in BOOLEAN : CreateMovableBegin(t, x, ok))
             /\ ~sess[t][1].manager)
            => raised'[t]
       /\ ((\E x \in Values, ok \in BOOLEAN : CreateMovableBegin(t, x, ok))
             /\ raised'[t])
            => /\ next_object_id_' = next_object_id_
               /\ objs' = objs
               /\ pend'[t] = <<>>
       /\ CreateMovableFinish(t)
            => /\ sess[t][1].manager
               /\ next_object_id_' = next_object_id_ + 1
               /\ Len(objs') = Len(objs) + 1
               /\ objs'[Len(objs')].object_id_ = next_object_id_
               /\ objs'[Len(objs')].data_ = Pickle(objs'[Len(objs')].orig)
               /\ \A a \in 1 .. Len(objs) : objs'[a] = objs[a]
    ]_vars

\* create_movable has failed in a session with no manager after one object
\* had been created: the counter still stands at 1.
C5_Witness ==
  /\ Len(objs) = 1
  /\ next_object_id_ = 1
  /\ \E t \in Threads :
       sess[t] # <<>> /\ ~sess[t][1].manager /\ raised[t]

C7_UnloadAll ==
  [][/\ \A k \in 1 .. MaxObjects :
          (sess' = sess /\ (UnloadAll(k) \/ DropLastHandle(k)))
            => /\ \A j \in Slots : Mat(instances_', j, k) = <<>>
               /\ objs'[k].data_ = objs[k].data_
               /\ objs'[k].object_id_ = objs[k].object_id_
     /\ \A t \in Threads, k \in 1 .. MaxObjects, ok \in BOOLEAN :
          (sess' = sess /\ FromMovable(t, k, ok) /\ ~raised'[t]
             /\ Mat(instances_, sess[t][1].interp, k) = <<>>)
            => Mat(instances_', sess[t][1].interp, k)
                 = <<Unpickle(objs[k].data_)>>
    ]_vars

\* The last handle of an object is gone, a session still carries the
\* materialization acquire_session gave it, and no instance holds one.
C7_Witness ==
  /\ n_ = 2
  /\ Len(objs) = 1
  /\ ~objs[1].alive
  /\ \E t \in Threads : sess[t] # <<>> /\ sess[t][1].self # <<>>
  /\ \A j \in Slots : Mat(instances_, j, 1) = <<>>

\* C8: a successful ReplicatedObj::acquire_session on a given interpreter
\* returns a session of that interpreter, moves no counter and frees nothing
\* when destroyed; without one it returns a session of the slot that
\* LoadBalancer::acquire returns, that counter one higher, tagged to free it;
\* either way the object is materialized in the session's instance and self
\* is that materialization.
C8_AcquireSession ==
  [][\A t \in Threads, k \in 1 .. MaxObjects, ok \in BOOLEAN :
       /\ \A target \in Slots :
            (sess'[t] # sess[t] /\ ObjAcquireSessionOn(t, k, target, ok)
               /\ ~raised'[t])
              => /\ sess'[t] # <<>>
                 /\ sess'[t][1].interp = target
                 /\ uses' = uses
                 /\ SessionDtor(uses', sess'[t][1]) = uses'
                 /\ Mat(instances_', target, k) # <<>>
                 /\ sess'[t][1].self = Mat(instances_', target, k)
       /\ (sess'[t] # sess[t] /\ ObjAcquireSessionAny(t, k, ok)
             /\ ~raised'[t])
            => LET s == AcquireCall(uses, last[t]).ret[1]
               IN /\ sess'[t] # <<>>
                  /\ sess'[t][1].interp = s
                  /\ uses' = [uses EXCEPT ![s] = @ + 1]
                  /\ SessionDtor(uses', sess'[t][1]) = uses
                  /\ Mat(instances_', s, k) # <<>>
                  /\ sess'[t][1].self = Mat(instances_', s, k)
    ]_vars

\* One thread holds a session from acquire_session on instance 0 and the
\* other a load-balanced one from acquire_session() on slot 1, both with
\* self set.
C8_Witness ==
  /\ n_ = 2
  /\ \E t, o \in Threads :
       /\ Direct(t) /\ sess[t][1].interp = 0 /\ sess[t][1].self # <<>>
       /\ LoadBalanced(o, 1) /\ sess[o][1].self # <<>>

\* C9: while the constructor runs every counter is 0; once it has returned
\* there are exactly n_ instances, the i-th tagged i, each with the lookup
\* callback installed, the counters were 0 at that moment, and from then on
\* no step changes the number of instances.
C9_Pool ==
  /\ [](mgr_pc = "ctor" => AllZero(uses) /\ Len(instances_) <= n_)
  /\ [](mgr_pc = "ready" =>
          /\ Len(instances_) = n_
          /\ \A i \in Slots :
               instances_[i + 1].interp = i /\ instances_[i + 1].find_module
          /\ \A i, j \in Slots :
               i # j => instances_[i + 1].interp # instances_[j + 1].interp)
  /\ [][/\ mgr_pc' = "ready" /\ mgr_pc = "ctor" => AllZero(uses')
        /\ mgr_pc = "ready" =>
             mgr_pc' = "ready" /\ Len(instances_') = Len(instances_)
        /\ n_' = n_]_vars

\* A pool of 2 after sessions were acquired, an object created and
\* materialized, and a module source registered.
C9_Witness ==
  /\ mgr_pc = "ready"
  /\ n_ = 2
  /\ Len(objs) = 1
  /\ \E j \in Slots : Mat(instances_, j, 1) # <<>>
  /\ "mod" \in DOMAIN registered_module_sources_
  /\ \E t \in Threads : LoadBalanced(t, 1)

\* Nothing but instance a's materialization of object k differs between the
\* two states of the step.
OnlyMat(a, k) ==
  /\ \A j \in Slots, id \in ObjIds :
       (j # a \/ id # objs[k].object_id_)
         => instances_'[j + 1].objs[id] = instances_[j + 1].objs[id]
  /\ \A j \in Slots :
       /\ instances_'[j + 1].interp = instances_[j + 1].interp
       /\ instances_'[j + 1].find_module = instances_[j + 1].find_module
  /\ objs' = objs
  /\ next_object_id_' = next_object_id_
  /\ uses' = uses

\* C17: from_movable of an object in a session on instance A and unload of
\* the object on instance A change nothing but A's materialization for the
\* object's id: not another instance's, not A's for another id, not the
\* payload, next_object_id_ or a counter.  When A already holds a
\* materialization for the id, from_movable returns it without
\* deserializing: it cannot fail and leaves A as it is.
C17_PerInstance ==
  /\ [](\A t \in Threads, k \in 1 .. Len(objs), ok \in BOOLEAN :
          (/\ sess[t] # <<>>
           /\ InPool(sess[t][1].interp)
           /\ Mat(instances_, sess[t][1].interp, k) # <<>>)
            => LET a == sess[t][1].interp
                   r == SessionFromMovable(InterpAt(a), objs[k], ok)
               IN /\ r.hit
                  /\ r.exc = <<>>
                  /\ r.ret = Mat(instances_, a, k)
                  /\ r.inst = InterpAt(a))
  /\ [][(/\ instances_' # instances_
         /\ sess' = sess
         /\ pend' = pend
         /\ last' = last) =>
        \A k \in 1 .. Len(objs) :
          /\ \A target \in Slots :
               UnloadOn(k, target)
                 => OnlyMat(target, k) /\ Mat(instances_', target, k) = <<>>
          /\ \A t \in Threads :
               (sess[t] # <<>> /\ FromMovable(t, k, TRUE))
                 => /\ OnlyMat(sess[t][1].interp, k)
                    /\ Mat(instances_', sess[t][1].interp, k)
                         = <<Unpickle(objs[k].data_)>>
       ]_vars

\* Two objects and two instances: the first object is materialized in
\* instance 0 only and the second in instance 1 only, and a thread holds a
\* session on instance 0 whose last call succeeded.
C17_Witness ==
  /\ n_ = 2
  /\ Len(objs) = 2
  /\ objs[1].alive /\ objs[2].alive
  /\ Mat(instances_, 0, 1) # <<>> /\ Mat(instances_, 1, 1) = <<>>
  /\ Mat(instances_, 0, 2) = <<>> /\ Mat(instances_, 1, 2) # <<>>
  /\ \E t \in Threads :
       sess[t] # <<>> /\ sess[t][1].interp = 0 /\ ~raised[t]

\* ---- claims about module sources (SpecMgr) -------------------------------
\* C10 as stated: once the lookup of a name returns a text it returns that
\* text on every later lookup.
C10_Original ==
  [][\A k \in 1 .. MaxPool, name \in Names, text \in Texts :
       (mgr_pc = "ready" /\ k - 1 \in Slots
          /\ InstanceLookup(k - 1, name) = <<text>>)
         => InstanceLookup(k - 1, name)' = <<text>>
    ]_vars

\* C10 (amended): after register_module_source(name, text) every instance's
\* lookup of name returns text until name is registered again, also for
\* registrations after construction; a name never registered has no source;
\* after construction GetArgumentNamesModule is registered.
C10_Lookup ==
  /\ [](mgr_pc = "ready" =>
          \A k \in Slots, name \in Names :
            /\ registered_ever[name] = {} => InstanceLookup(k, name) = <<>>
            /\ registered_ever[name] # {} =>
                 \E text \in registered_ever[name] :
                   InstanceLookup(k, name) = <<text>>
            /\ InstanceLookup(k, "GetArgumentNamesModule") # <<>>)
  /\ [][\A k \in 1 .. MaxPool, name \in Names :
          (mgr_pc = "ready" /\ k - 1 \in Slots)
            => /\ \A text \in Texts :
                    RegisterModuleSource(name, text)
                      => InstanceLookup(k - 1, name)' = <<text>>
               /\ (~ \E text \in Texts : RegisterModuleSource(name, text))
                    => InstanceLookup(k - 1, name)'
                         = InstanceLookup(k - 1, name)
       ]_vars

\* "mod" was registered after construction with both texts, the second one
\* being what a pool of 2 now looks up, seen from a load-balanced session.
C10_Witness ==
  /\ mgr_pc = "ready"
  /\ n_ = 2
  /\ registered_ever["mod"] = Texts
  /\ \A k \in Slots : InstanceLookup(k, "mod") = <<"text">>
  /\ \E t \in Threads : LoadBalanced(t, 0)
\* ---- claims about errors (SpecErr) ---------------------------------------
\* The texts given where the code raises.
Originals ==
  {InterpreterThrow(step).msg[1] : step \in FailSteps}
    \cup {ImplError.msg[1], CreateCheckError.msg[1]}

\* An exception as it leaves the core after `notes` wrappers: a c10::Error
\* whose message ends with the text orig.
Leaves(e, notes, orig) ==
  /\ e.kind = "c10::Error"
  /\ Len(e.msg) = notes + 1
  /\ e.msg[Len(e.msg)] = orig

AtBoundary(e) ==
  /\ e.kind = "c10::Error"
  /\ Len(e.msg) >= 2
  /\ e.msg[Len(e.msg)] \in Originals

RegisterContract(a, b, s, e) ==
  IF a = 0 \/ b = 0 \/ b - a <= 0
    THEN /\ ld_err' # <<>>
         /\ ld_err'[1].kind = "c10::Error"
         /\ s' = s
         /\ e' = e
    ELSE /\ ld_err' = <<>>
         /\ s' = a
         /\ e' = b

\* C11: register_embedded_interpreter(lib_start, lib_end) fails its check
\* when lib_start is null, lib_end is null or lib_end - lib_start <= 0 and
\* then leaves the registered range as it was; otherwise the registered
\* range becomes (lib_start, lib_end).  The same for the cuda variant and its
\* own range.
C11_Register ==
  [][\A a, b \in Addrs :
       /\ register_embedded_interpreter(a, b)
            => RegisterContract(a, b, embedded_interpreter_so_start,
                                embedded_interpreter_so_end)
       /\ register_embedded_interpreter_cuda(a, b)
            => RegisterContract(a, b, embedded_interpreter_cuda_so_start,
                                embedded_interpreter_cuda_so_end)
    ]_vars

\* A range is registered and the call after it has failed its check; the
\* cuda range was registered too.
C11_Witness ==
  /\ embedded_interpreter_so_start = 1
  /\ embedded_interpreter_so_end = 2
  /\ embedded_interpreter_cuda_so_start = 2
  /\ embedded_interpreter_cuda_so_end = 3
  /\ ld_err # <<>>
\* The steps of seq that are among those of S, in order.
Among(seq, S) == SelectSeq(seq, LAMBDA x : x \in S)

IsPrefix(a, b) ==
  Len(a) <= Len(b) /\ \A j \in 1 .. Len(a) : a[j] = b[j]

\* C18: when the constructor has returned it has, in this order, created
\* the temporary file, written the image to it, loaded it, unlinked it,
\* (without FBCODE_CAFFE2) resolved and called deploy_set_self, and resolved
\* and called new_interpreter_impl; the file is gone.  The load is given the
\* whole image, the entry points are resolved only after the unlink, which
\* follows the load, and the implementation object never exists without the
\* module loaded.
C18_Construction ==
  /\ itp.pc = "live" =>
       /\ Among(steps, {"mkstemp", "write", "dlopen", "unlink", "set_self",
                        "new_impl"})
            = IF fbcode
                THEN <<"mkstemp", "write", "dlopen", "unlink", "new_impl">>
                ELSE <<"mkstemp", "write", "dlopen", "unlink", "set_self",
                       "new_impl">>
       /\ os.tmp = "none"
       /\ os.mapped /\ os.impl
       /\ ~os.moved => itp.handle_ # 0 /\ itp.pImpl_
  /\ itp.pc = "dlopen" => os.tmp = "image"
  /\ itp.pc \in {"set_self", "new_impl"} => os.tmp = "none" /\ os.mapped
  /\ itp.pImpl_ => itp.handle_ # 0 /\ os.mapped

\* An Interpreter stands constructed in a build without FBCODE_CAFFE2.
C18_Witness == itp.pc = "live" /\ ~fbcode /\ itp.handle_ # 0 /\ Len(steps) = 9

\* The steps of the destructor among the history.
Teardown == Among(steps, {"reset", "flush", "dlclose"})

\* C19: the destructor of an Interpreter with a module handle destroys the
\* implementation object, then (without FBCODE_CAFFE2) calls the flush entry
\* point, then unloads the module, once; the module is never unloaded
\* while the implementation object exists; the destructor of an Interpreter
\* whose handle is null unloads nothing.
C19_Teardown ==
  /\ IsPrefix(Teardown, IF fbcode THEN <<"reset", "dlclose">>
                        ELSE <<"reset", "flush", "dlclose">>)
  /\ (itp.pc = "destroyed" /\ ~os.moved) =>
       /\ Teardown = IF fbcode THEN <<"reset", "dlclose">>
                     ELSE <<"reset", "flush", "dlclose">>
       /\ ~os.mapped /\ ~os.impl
  /\ (itp.pc = "destroyed" /\ os.moved) =>
       Teardown = <<>> /\ os.mapped /\ os.impl
  /\ itp.pc \in {"flush", "dlclose"} => os.mapped /\ ~os.impl
  /\ os.impl => os.mapped

\* An Interpreter has been destroyed in a build without FBCODE_CAFFE2 and its
\* module unloaded.
C19_Witness ==
  itp.pc = "destroyed" /\ ~fbcode /\ ~os.moved /\ Len(Teardown) = 3
\* C20: a ReplicatedObj::acquire_session without an interpreter whose
\* from_movable fails, after acquire_one took a slot, frees that slot once
\* before the error reaches the caller: the caller is left with an error and
\* no session, and every LoadBalancer counter has the value it had before the
\* call.
C20_NoLeak ==
  [][\A t \in Threads :
       (/\ sess' = sess
        /\ instances_' = instances_
        /\ raised'[t]
        /\ sess[t] = <<>>
        /\ \E k \in 1 .. MaxObjects : ObjAcquireSessionAny(t, k, FALSE))
       => (/\ uses' = uses
           /\ err'[t] # <<>>
           /\ LET a == AcquireCall(uses, last[t])
              IN /\ a.uses # uses
                 /\ uses' = FreeCounter(a.uses, a.ret[1])
                 /\ last'[t] = a.last)]_vars

\* A thread's acquire_session failed in from_movable after the LoadBalancer
\* had given it slot 1 (slot 0 being held by the other thread): it holds no
\* session, the error carries the notes of both wrappers, and slot 1 is back
\* at 0.
C20_Witness ==
  /\ n_ = 2
  /\ uses[0] = 1 /\ uses[1] = 0
  /\ \E t \in Threads :
       /\ raised[t] /\ sess[t] = <<>> /\ last[t] = 1
       /\ err[t] # <<>> /\ Len(err[t][1].msg) >= 3
       /\ \E o \in Threads \ {t} : LoadBalanced(o, 0)
\* The constructor is running: it has been entered and not yet left.
InConstructor == itp.pc \in {CtorOrder[j] : j \in 1 .. Len(CtorOrder)}

\* C21: once the constructor of an Interpreter has been left, by a return
\* or by a failure (no image registered, an incomplete write, a failed load,
\* a missing entry point), the temporary file that mkstemp created for it
\* is no longer on disk.
C21_Original == (itp.pc # "none" /\ ~InConstructor) => os.tmp = "none"

\* In a build with FBCODE_CAFFE2 and no image registered the constructor
\* has failed the check of lib_start and lib_end, and the empty temporary
\* file it created is still on disk.
C21_Witness ==
  /\ fbcode
  /\ itp.pc = "failed"
  /\ ld_err = <<InterpreterThrow("select")>>
  /\ os.tmp = "empty"
=============================================================================
